---- MODULE Spec2Model ----
(***************************************************************************)
(* R-peak detection (simplified Pan-Tompkins) of lib/peakDetection:        *)
(* the batch pipeline detectPeaks and the streaming RealtimePeakDetector.  *)
(*                                                                         *)
(* Numbers.  The code computes in IEEE doubles; the model computes the     *)
(* same quantities exactly, in integers:                                   *)
(*   - a sample value is an integer number of 0.1 mV (the amplitude gate   *)
(*     0.4 is the integer 4);                                              *)
(*   - a sample time is an integer number of milliseconds (0.3 s = 300);   *)
(*   - each conditioning stage returns its real result multiplied by a     *)
(*     fixed positive factor (the common denominator of its divisions).    *)
(*     findPeaks only compares envelope values with each other and with    *)
(*     thresholds proportional to them, so the factor changes no test;     *)
(*   - the adaptive threshold is held as 100 x threshold; the division by  *)
(*     10 in its update truncates;                                         *)
(*   - a heart rate is the exact fraction [num, den] (BPM = num / den).    *)
(* An array index is 0-based in a Peak, as in the code; sequences are      *)
(* 1-based, so data[k] of the code is data[k + 1] here.                    *)
(***************************************************************************)
EXTENDS Integers, Sequences, FiniteSets, TLC

\* ------------------------------------------------------------ constants

\* detectPeaks: an input of fewer samples is answered with the empty result
MinBatchSamples == 50
\* addData: fewer unprocessed samples than this run no detection
MinNewSamples == 50
\* findPeaks: an envelope shorter than this yields no peak
MinEnvelopeLength == 10
\* findPeaks: half-width of the search for the true R-peak in the original signal
SearchHalfWidth == 8

\* ------------------------------------------------------------ helpers

Max2(a, b) == IF a >= b THEN a ELSE b

Min2(a, b) == IF a <= b THEN a ELSE b

RECURSIVE Gcd(_, _)
Gcd(a, b) == IF b = 0 THEN a ELSE Gcd(b, a % b)

RECURSIVE LcmUpTo(_)
\* least common multiple of 1..k (1 for k < 1): the common denominator of
\* the window counts 1..k of a moving average
LcmUpTo(k) ==
    IF k < 1 THEN 1
    ELSE LET m == LcmUpTo(k - 1) IN (m * k) \div Gcd(m, k)

RECURSIVE SumRange(_, _, _)
\* data[lo] + ... + data[hi] (1-based, 0 when lo > hi)
SumRange(data, lo, hi) ==
    IF lo > hi THEN 0 ELSE data[lo] + SumRange(data, lo + 1, hi)

\* the sequence with the same elements, held as a tuple
Seq0(f) == f \o <<>>

\* the result of 0 / 0.  Envelope values are means of squares, never
\* negative, so -1 stands for no real value.
NaN == -1

\* a > b on numbers: false when either side is NaN
Greater(a, b) == a # NaN /\ b # NaN /\ a > b

\* x || 0 on numbers: 0 for NaN (and for 0)
OrZero(x) == IF x = NaN THEN 0 ELSE x

\* ------------------------------------------------------------ conditioning

\* bandpassFilter: data[i] minus the mean over the window of half-width
\* floor(sampleRate / 15), clamped to the array.  Returned times
\* LcmUpTo(2 * windowSize + 1).
bandpassFilter(data, sampleRate) ==
    LET windowSize == sampleRate \div 15
        n == Len(data)
        scale == LcmUpTo(2 * windowSize + 1)
    IN  Seq0([i \in 1..n |->
            LET lo == Max2(1, i - windowSize)
                hi == Min2(n, i + windowSize)
                count == hi - lo + 1
            IN  scale * data[i] - (scale \div count) * SumRange(data, lo, hi)])

\* derivative: five-point derivative, 4 entries shorter than its input.
\* Returned times 8 (the code divides by 8).
derivative(data) ==
    LET n == Len(data)
    IN  IF n < 5 THEN <<>>
        ELSE Seq0([k \in 1..(n - 4) |->
                (0 - data[k]) - 2 * data[k + 1] + 2 * data[k + 3] + data[k + 4]])

\* squaring: element-wise square
squaring(data) == Seq0([k \in 1..Len(data) |-> data[k] * data[k]])

\* movingWindowIntegration: mean over the trailing window of windowSize
\* entries (shorter at the start).  Returned times LcmUpTo(windowSize).
\* With windowSize = 0 the window of every entry is empty: the sum is 0,
\* the count i - start + 1 is 0, and sum / count is NaN.
movingWindowIntegration(data, windowSize) ==
    LET scale == LcmUpTo(windowSize)
    IN  Seq0([i \in 1..Len(data) |->
            LET start == Max2(1, i - windowSize + 1)
            IN  IF i - start + 1 = 0 THEN NaN
                ELSE (scale \div (i - start + 1)) * SumRange(data, start, i)])

\* the divisors bandpassFilter evaluates on n samples: sampleRate / 2 (held
\* as sampleRate, zero exactly when it is) and the count of every window
bandpassDivisors(n, sampleRate) ==
    LET windowSize == sampleRate \div 15
    IN  {sampleRate} \cup
        {Min2(n, i + windowSize) - Max2(1, i - windowSize) + 1 : i \in 1..n}

\* the divisor derivative evaluates
derivativeDivisors(n) == IF n < 5 THEN {} ELSE {8}

\* the divisors movingWindowIntegration evaluates on n entries
movingWindowDivisors(n, windowSize) ==
    {i - Max2(1, i - windowSize + 1) + 1 : i \in 1..n}

\* ------------------------------------------------------------ peak picker

\* entry k (0-based) of a code array
At(arr, k) == arr[k + 1]

\* [...processedSignal].sort((a, b) => b - a)[rank]: the entry at 0-based
\* position rank of the signal sorted in descending order, which is the
\* value v with at most rank entries greater than v and more than rank
\* entries at least v; `|| 0` when the position is outside the array
sortedSignalAt(processedSignal, rank) ==
    LET idx == 1..Len(processedSignal)
    IN  IF rank >= Len(processedSignal) THEN 0
        ELSE CHOOSE v \in {processedSignal[k] : k \in idx} :
                /\ Cardinality({k \in idx : processedSignal[k] > v}) <= rank
                /\ Cardinality({k \in idx : processedSignal[k] >= v}) > rank

\* mutant of SearchMax: the window is 4 samples wide on each side
SearchMaxNarrow(originalSignal, i) ==
    LET searchStart == Max2(0, i - 4)
        searchEnd == Min2(Len(originalSignal) - 1, i + 4)
        atI == IF i < Len(originalSignal) THEN At(originalSignal, i) ELSE 0
        window == searchStart..searchEnd
        greater == {j \in window : At(originalSignal, j) > atI}
        peakVal == IF greater = {} THEN atI
                   ELSE CHOOSE v \in {At(originalSignal, j) : j \in greater} :
                            \A j \in greater : At(originalSignal, j) <= v
    IN  [peakVal |-> peakVal,
         maxIdx |-> IF greater = {} THEN i
                    ELSE CHOOSE j \in greater :
                            /\ At(originalSignal, j) = peakVal
                            /\ \A k \in greater :
                                  At(originalSignal, k) = peakVal => j <= k]

\* the search of findPeaks in the original signal around envelope index i:
\*   maxIdx = i; peakVal = originalSignal[i] || 0;
\*   for j in searchStart..searchEnd:
\*     if originalSignal[j] > peakVal then peakVal, maxIdx = originalSignal[j], j
\* The loop ends with the greatest value of the window, at i when
\* originalSignal[i] attains it and else at the first index that attains it.
SearchMax(originalSignal, i) ==
    LET searchStart == Max2(0, i - SearchHalfWidth)
        searchEnd == Min2(Len(originalSignal) - 1, i + SearchHalfWidth)
        atI == IF i < Len(originalSignal) THEN At(originalSignal, i) ELSE 0
        window == searchStart..searchEnd
        greater == {j \in window : At(originalSignal, j) > atI}
        peakVal == IF greater = {} THEN atI
                   ELSE CHOOSE v \in {At(originalSignal, j) : j \in greater} :
                            \A j \in greater : At(originalSignal, j) <= v
    IN  [peakVal |-> peakVal,
         maxIdx |-> IF greater = {} THEN i
                    ELSE CHOOSE j \in greater :
                            /\ At(originalSignal, j) = peakVal
                            /\ \A k \in greater :
                                  At(originalSignal, k) = peakVal => j <= k]

\* processedSignal[i] is a strict maximum among its two neighbours on each side
isLocalMax(processedSignal, i) ==
    /\ Greater(At(processedSignal, i), At(processedSignal, i - 1))
    /\ Greater(At(processedSignal, i), At(processedSignal, i - 2))
    /\ Greater(At(processedSignal, i), At(processedSignal, i + 1))
    /\ Greater(At(processedSignal, i), At(processedSignal, i + 2))

\* mutant of AmplitudeGate: the gate is at 0.04
AmplitudeGateLow(peakVal) == 10 * peakVal > 4

\* the amplitude gate of findPeaks: peakVal > 0.4 (values in 0.1 mV)
AmplitudeGate(peakVal) == peakVal > 4

\* refractoryPeriod = floor(0.25 * sampleRate), in samples
RefractoryPeriod(sampleRate) == sampleRate \div 4

\* the threshold after a peak at envelope value v:
\* max(0.3 * v + 0.7 * threshold, minThreshold), all held times 100
AdaptThreshold(v, threshold, minThreshold) ==
    Max2(30 * v + (7 * threshold) \div 10, minThreshold)

\* mutant of IsCandidate: no refractory test
IsCandidateNoRefractory(processedSignal, i, threshold, lastPeakIndex, refractoryPeriod) ==
    /\ isLocalMax(processedSignal, i)
    /\ 100 * At(processedSignal, i) > threshold

\* the outer test of findPeaks at envelope index i
IsCandidate(processedSignal, i, threshold, lastPeakIndex, refractoryPeriod) ==
    /\ isLocalMax(processedSignal, i)
    /\ 100 * At(processedSignal, i) > threshold
    /\ i - lastPeakIndex >= refractoryPeriod

\* envelope index i produces a peak: it passes the outer test and the
\* sample found in the original signal passes the amplitude gate
Emits(processedSignal, originalSignal, sampleRate, i, st) ==
    /\ IsCandidate(processedSignal, i, st.threshold, st.lastPeakIndex,
                   RefractoryPeriod(sampleRate))
    /\ AmplitudeGate(SearchMax(originalSignal, i).peakVal)

\* the loop variables of findPeaks after the peak of envelope index i
AfterPeak(processedSignal, originalSignal, times, i, st) ==
    LET found == SearchMax(originalSignal, i)
    IN  [threshold |-> AdaptThreshold(At(processedSignal, i), st.threshold,
                                      st.minThreshold),
         minThreshold |-> st.minThreshold,
         lastPeakIndex |-> i,
         accepted |-> Append(st.accepted, i),
         thresholds |-> Append(st.thresholds, st.threshold),
         visited |-> st.visited,
         peaks |-> Append(st.peaks,
                    [time |-> IF found.maxIdx < Len(times)
                              THEN At(times, found.maxIdx) ELSE 0,
                     value |-> found.peakVal,
                     index |-> found.maxIdx])]

\* the loop variables of findPeaks
LoopVars(st) ==
    [threshold |-> st.threshold, lastPeakIndex |-> st.lastPeakIndex,
     peaks |-> st.peaks]

\* mutant of LoopBody: lastPeakIndex and the threshold are updated outside
\* the amplitude gate
LoopBodyAdaptsOutsideGate(processedSignal, originalSignal, times, sampleRate, i, st) ==
    IF Emits(processedSignal, originalSignal, sampleRate, i, st)
    THEN AfterPeak(processedSignal, originalSignal, times, i, st)
    ELSE IF IsCandidate(processedSignal, i, st.threshold, st.lastPeakIndex,
                        RefractoryPeriod(sampleRate))
    THEN [st EXCEPT !.lastPeakIndex = i,
                    !.threshold = AdaptThreshold(At(processedSignal, i),
                                                 st.threshold, st.minThreshold)]
    ELSE st

\* one pass of the loop body of findPeaks, at envelope index i: the push
\* and the updates of lastPeakIndex and threshold are all inside
\* `if (peakVal > 0.4)`, itself inside the outer test
LoopBody(processedSignal, originalSignal, times, sampleRate, i, st) ==
    IF Emits(processedSignal, originalSignal, sampleRate, i, st)
    THEN AfterPeak(processedSignal, originalSignal, times, i, st)
    ELSE st

\* the scan's state after the loop body ran at index i, a candidate; the
\* visit is recorded with the loop variables before and after it
Visit(processedSignal, originalSignal, times, sampleRate, i, st) ==
    LET after == LoopBody(processedSignal, originalSignal, times, sampleRate, i, st)
    IN  [after EXCEPT !.visited =
            Append(st.visited,
                   [index |-> i,
                    emitted |-> Len(after.peaks) > Len(st.peaks),
                    before |-> LoopVars(st),
                    after |-> LoopVars(after)])]

RECURSIVE FindPeaksScan(_, _, _, _, _, _)
\* the loop of findPeaks from envelope index `from` on; st holds the loop's
\* variables (threshold, lastPeakIndex, peaks) and, for each peak, the
\* envelope index that produced it (accepted) and the threshold it was
\* tested against (thresholds, times 100).  The loop body leaves its
\* variables alone at an index that fails the outer test, so the loop is
\* followed from one index that passes it to the next.
FindPeaksScan(processedSignal, originalSignal, times, sampleRate, from, st) ==
    LET candidates == {i \in from..(Len(processedSignal) - 3) :
                          IsCandidate(processedSignal, i, st.threshold,
                                      st.lastPeakIndex, RefractoryPeriod(sampleRate))}
    IN  IF candidates = {} THEN st
        ELSE FindPeaksScan(processedSignal, originalSignal, times, sampleRate,
                (CHOOSE i \in candidates : \A k \in candidates : i <= k) + 1,
                Visit(processedSignal, originalSignal, times, sampleRate,
                      CHOOSE i \in candidates : \A k \in candidates : i <= k, st))

\* mutant of InitialThreshold: a tenth of both factors
InitialThresholdLow(maxVal, percentile95) == Max2(4 * maxVal, 5 * percentile95)

\* the threshold findPeaks starts with: max(0.4 * maxVal, 0.5 * percentile95),
\* held times 100
InitialThreshold(maxVal, percentile95) == Max2(40 * maxVal, 50 * percentile95)

\* findPeaks with the state of its scan: threshold = max(0.4 * maxVal,
\* 0.5 * percentile95) and minThreshold = 0.1 * maxVal, both held times 100
findPeaksState(processedSignal, originalSignal, times, sampleRate) ==
    LET n == Len(processedSignal)
        percentile95 == OrZero(sortedSignalAt(processedSignal, n \div 20))
        maxVal == OrZero(sortedSignalAt(processedSignal, 0))
        start == [threshold |-> InitialThreshold(maxVal, percentile95),
                  minThreshold |-> 10 * maxVal,
                  lastPeakIndex |-> 0 - RefractoryPeriod(sampleRate),
                  accepted |-> <<>>,
                  thresholds |-> <<>>,
                  visited |-> <<>>,
                  peaks |-> <<>>]
    IN  IF n < MinEnvelopeLength THEN start
        ELSE FindPeaksScan(processedSignal, originalSignal, times, sampleRate, 2, start)

\* findPeaks: the peaks of the scan
findPeaks(processedSignal, originalSignal, times, sampleRate) ==
    findPeaksState(processedSignal, originalSignal, times, sampleRate).peaks

\* ------------------------------------------------------------ metrics

\* mutant of ValidRR: no upper limit
ValidRRNoUpperLimit(rr) == rr > 300

\* an RR interval (milliseconds) is kept when 0.3 s < rr < 2.0 s
ValidRR(rr) == rr > 300 /\ rr < 2000

\* mutant of calculateMetrics: avgHR is 60 over the sum of the intervals
calculateMetricsSum(peaks) ==
    LET rr == Seq0([i \in 1..(Len(peaks) - 1) |-> peaks[i + 1].time - peaks[i].time])
        rrIntervals == SelectSeq(rr, ValidRR)
        n == Len(rrIntervals)
    IN  IF n = 0
        THEN [rrIntervals |-> <<>>, instantHR |-> [num |-> 0, den |-> 1],
              avgHR |-> [num |-> 0, den |-> 1]]
        ELSE [rrIntervals |-> rrIntervals,
              instantHR |-> [num |-> 60000, den |-> rrIntervals[n]],
              avgHR |-> [num |-> 60000, den |-> SumRange(rrIntervals, 1, n)]]

\* mutant of calculateMetrics: the intervals are collected up to the first
\* one that is out of range
calculateMetricsStopsAtInvalid(peaks) ==
    LET rr == Seq0([i \in 1..(Len(peaks) - 1) |-> peaks[i + 1].time - peaks[i].time])
        invalid == {i \in 1..Len(rr) : ~ValidRR(rr[i])}
        rrIntervals == IF invalid = {} THEN rr
                       ELSE SubSeq(rr, 1, (CHOOSE i \in invalid :
                                              \A k \in invalid : i <= k) - 1)
        n == Len(rrIntervals)
    IN  IF n = 0
        THEN [rrIntervals |-> <<>>, instantHR |-> [num |-> 0, den |-> 1],
              avgHR |-> [num |-> 0, den |-> 1]]
        ELSE [rrIntervals |-> rrIntervals,
              instantHR |-> [num |-> 60000, den |-> rrIntervals[n]],
              avgHR |-> [num |-> 60000 * n, den |-> SumRange(rrIntervals, 1, n)]]

\* calculateMetrics: rrIntervals in milliseconds, the differences of
\* consecutive peak times that are valid, in order; instantHR = 60 / last
\* interval and avgHR = 60 / mean interval, in BPM, as fractions
calculateMetrics(peaks) ==
    LET rr == Seq0([i \in 1..(Len(peaks) - 1) |-> peaks[i + 1].time - peaks[i].time])
        rrIntervals == SelectSeq(rr, ValidRR)
        n == Len(rrIntervals)
    IN  IF n = 0
        THEN [rrIntervals |-> <<>>, instantHR |-> [num |-> 0, den |-> 1],
              avgHR |-> [num |-> 0, den |-> 1]]
        ELSE [rrIntervals |-> rrIntervals,
              instantHR |-> [num |-> 60000, den |-> rrIntervals[n]],
              avgHR |-> [num |-> 60000 * n, den |-> SumRange(rrIntervals, 1, n)]]

\* the divisors calculateMetrics evaluates: the last interval, the number
\* of intervals and their mean (held as their sum), when there is one
metricsDivisors(peaks) ==
    LET rrIntervals == calculateMetrics(peaks).rrIntervals
        n == Len(rrIntervals)
    IN  IF n = 0 THEN {}
        ELSE {rrIntervals[n], n, SumRange(rrIntervals, 1, n)}

\* ------------------------------------------------------------ detectPeaks

\* the result detectPeaks returns for fewer than 50 samples
EmptyResult ==
    [peaks |-> <<>>, rrIntervals |-> <<>>,
     instantHR |-> [num |-> 0, den |-> 1], avgHR |-> [num |-> 0, den |-> 1]]

\* the envelope detectPeaks hands to findPeaks
Envelope(values, sampleRate) ==
    movingWindowIntegration(squaring(derivative(bandpassFilter(values, sampleRate))),
                            (15 * sampleRate) \div 100)

\* detectPeaks past its length check: conditioning, peak picking, metrics
Pipeline(data, sampleRate) ==
    LET values == Seq0([k \in 1..Len(data) |-> data[k].value])
        times == Seq0([k \in 1..Len(data) |-> data[k].time])
        peaks == findPeaks(Envelope(values, sampleRate), values, times, sampleRate)
        m == calculateMetrics(peaks)
    IN  [peaks |-> peaks, rrIntervals |-> m.rrIntervals,
         instantHR |-> m.instantHR, avgHR |-> m.avgHR]

\* the divisors one detectPeaks call evaluates, given the result it returns
detectPeaksDivisors(data, sampleRate, result) ==
    IF Len(data) < MinBatchSamples THEN {}
    ELSE bandpassDivisors(Len(data), sampleRate)
            \cup derivativeDivisors(Len(data))
            \cup movingWindowDivisors(Len(data) - 4, (15 * sampleRate) \div 100)
            \cup metricsDivisors(result.peaks)

\* mutant of detectPeaks: the length check asks for 5 samples, not 50
detectPeaksShortCheck(data, sampleRate) ==
    IF Len(data) < 5 THEN EmptyResult ELSE Pipeline(data, sampleRate)

\* detectPeaks(data, sampleRate)
detectPeaks(data, sampleRate) ==
    IF Len(data) < MinBatchSamples THEN EmptyResult ELSE Pipeline(data, sampleRate)

\* ------------------------------------------------------------ RealtimePeakDetector

\* mutant of RemoveCount: one sample too few leaves the buffer
RemoveCountOneLess(length, bufferSize) ==
    IF length > bufferSize THEN length - bufferSize - 1 ELSE 0

\* addData, the trim: how many samples leave the buffer
RemoveCount(length, bufferSize) ==
    IF length > bufferSize THEN length - bufferSize ELSE 0

\* addData, the trim: buffer.splice(0, removeCount)
Splice(buffer, removeCount) == SubSeq(buffer, removeCount + 1, Len(buffer))

\* mutant of TrimIndex: an eviction leaves the watermark where it was
TrimIndexKeeps(lastProcessedIndex, removeCount) == lastProcessedIndex

\* mutant of TrimIndex: the watermark is not floored at 0
TrimIndexNoFloor(lastProcessedIndex, removeCount) ==
    lastProcessedIndex - removeCount

\* addData, the trim: lastProcessedIndex = max(0, lastProcessedIndex - removeCount)
TrimIndex(lastProcessedIndex, removeCount) ==
    Max2(0, lastProcessedIndex - removeCount)

\* mutant of TrimPeaks: no peak is dropped
TrimPeaksKeepsAll(detectedPeaks, buffer) == detectedPeaks

\* addData, the trim: the peaks at or after the time of the first buffered
\* sample (`|| 0` when the buffer is empty)
TrimPeaks(detectedPeaks, buffer) ==
    LET minTime == IF Len(buffer) > 0 THEN buffer[1].time ELSE 0
    IN  SelectSeq(detectedPeaks, LAMBDA p : p.time >= minTime)

\* mutant of RunsDetection: 50 unprocessed samples are not enough
RunsDetectionLate(length, lastProcessedIndex) ==
    ~(length - lastProcessedIndex < 51)

\* mutant of RunsDetection: 25 unprocessed samples are enough
RunsDetectionEarly(length, lastProcessedIndex) ==
    ~(length - lastProcessedIndex < 25)

\* addData: detection runs unless buffer.length - lastProcessedIndex < 50
RunsDetection(length, lastProcessedIndex) ==
    ~(length - lastProcessedIndex < MinNewSamples)

\* mutant of MergePeaks: peaks not earlier than the last accumulated one
MergePeaksInclusive(detectedPeaks, resultPeaks) ==
    LET lastPeakTime == IF Len(detectedPeaks) > 0
                        THEN detectedPeaks[Len(detectedPeaks)].time ELSE 0
    IN  detectedPeaks \o SelectSeq(resultPeaks, LAMBDA p : p.time >= lastPeakTime)

\* addData, the merge: the peaks of the batch result later than the last
\* accumulated peak (`|| 0` when there is none) are appended
MergePeaks(detectedPeaks, resultPeaks) ==
    LET lastPeakTime == IF Len(detectedPeaks) > 0
                        THEN detectedPeaks[Len(detectedPeaks)].time ELSE 0
    IN  detectedPeaks \o SelectSeq(resultPeaks, LAMBDA p : p.time > lastPeakTime)

\* addData(newData) on a detector d = [sampleRate, bufferSize, buffer,
\* detectedPeaks, lastProcessedIndex]: the detector afterwards, the result
\* returned and what the call did (removeCount, trimmedIndex: the watermark
\* after the trim, detected: whether the pipeline ran, pipelineLength: the
\* length of the buffer handed to detectPeaks, batch: what detectPeaks
\* returned, oldArray: the contents, after the call, of the array object that
\* was this.detectedPeaks when the call began: the trim assigns a new array
\* (filter) and leaves the old one alone; without a trim, the merge pushes
\* onto the old one in place)
addData(d, newData) ==
    LET pushed == d.buffer \o newData
        removeCount == RemoveCount(Len(pushed), d.bufferSize)
        trimmed == removeCount > 0
        buffer1 == IF trimmed THEN Splice(pushed, removeCount) ELSE pushed
        index1 == IF trimmed THEN TrimIndex(d.lastProcessedIndex, removeCount)
                  ELSE d.lastProcessedIndex
        peaks1 == IF trimmed THEN TrimPeaks(d.detectedPeaks, buffer1)
                  ELSE d.detectedPeaks
        detects == RunsDetection(Len(buffer1), index1)
        batch == IF detects THEN detectPeaks(buffer1, d.sampleRate) ELSE EmptyResult
        peaks2 == IF detects THEN MergePeaks(peaks1, batch.peaks) ELSE peaks1
        metrics == IF detects THEN batch ELSE calculateMetrics(peaks1)
    IN  [buffer |-> buffer1,
         detectedPeaks |-> peaks2,
         lastProcessedIndex |-> IF detects THEN Len(buffer1) ELSE index1,
         result |-> [peaks |-> peaks2, rrIntervals |-> metrics.rrIntervals,
                     instantHR |-> metrics.instantHR, avgHR |-> metrics.avgHR],
         removeCount |-> removeCount,
         trimmedIndex |-> index1,
         detected |-> detects,
         pipelineLength |-> IF detects THEN Len(buffer1) ELSE 0,
         batch |-> batch,
         oldArray |-> IF trimmed THEN d.detectedPeaks ELSE peaks2,
         divisors |-> IF detects THEN detectPeaksDivisors(buffer1, d.sampleRate, batch)
                      ELSE metricsDivisors(peaks1)]

\* ------------------------------------------------------------ risk fusion
\* The scorer of the risk-fusion function.  Durations are in milliseconds,
\* the ECG score is held times 100 and the fused score times 1000 (the
\* weights alpha and beta are held times 10), which is exact for integer
\* confidences.  A profile field that is absent is 0 (the code tests the
\* field's truthiness) or the string "absent".

\* Math.round of the fraction num / den (den > 0): floor(num / den + 1/2)
Round(num, den) == (2 * num + den) \div (2 * den)

\* the labels calculateECGRisk takes for abnormal (label.includes, any case)
AbnormalLabels == {"Atrial Fibrillation", "Ventricular Tachycardia", "AV Block",
                   "ST Elevation"}

\* qtc = qtInterval / sqrt(rrInterval) > 0.45, for a positive rrInterval:
\* qt * qt > 0.2025 * rr in seconds, 2 * qt * qt > 405 * rr in milliseconds
ProlongedQTc(metrics) == 2 * metrics.qtInterval * metrics.qtInterval > 405 * metrics.rrInterval

\* calculateECGRisk, the heart-rate assessment: the points added to the
\* score and the factor pushed.  The branches are tested in the order
\* < 50, > 100, > 120.
HeartRateAssessment(heartRate) ==
    IF heartRate < 50
    THEN [points |-> 25, factor |-> "Bradycardia detected (HR < 50 BPM)"]
    ELSE IF heartRate > 100
    THEN [points |-> 20, factor |-> "Tachycardia detected (HR > 100 BPM)"]
    ELSE IF heartRate > 120
    THEN [points |-> 35, factor |-> "Significant tachycardia (HR > 120 BPM)"]
    ELSE [points |-> 0, factor |-> "none"]

\* calculateECGRisk(metrics, classification).score, times 100
calculateECGRisk(metrics, classification) ==
    LET rate == HeartRateAssessment(metrics.heartRate).points
        hrv == IF metrics.hrvSdnn < 20 THEN 20
               ELSE IF metrics.hrvSdnn < 50 THEN 10
               ELSE 0
        qrs == IF metrics.qrsDuration > 120 THEN 15 ELSE 0
        qtc == IF ProlongedQTc(metrics) THEN 20 ELSE 0
        pattern == IF classification.label \in AbnormalLabels
                   THEN 30 * classification.confidence ELSE 0
        score == 100 * (rate + hrv + qrs + qtc) + pattern
        adjusted == IF classification.confidence < 70 THEN (score * 8) \div 10
                    ELSE score
    IN  Min2(adjusted, 100 * 100)

\* calculateClinicalRisk(profile).score
calculateClinicalRisk(profile) ==
    LET age == IF profile.age = 0 THEN 0
               ELSE IF profile.age >= 65 THEN 20
               ELSE IF profile.age >= 55 THEN 15
               ELSE IF profile.age >= 45 THEN 10
               ELSE 0
        bmi == IF profile.bmi = 0 THEN 0
               ELSE IF profile.bmi >= 35 THEN 15
               ELSE IF profile.bmi >= 30 THEN 10
               ELSE IF profile.bmi >= 25 THEN 5
               ELSE 0
        pressure == IF profile.bloodPressureSystolic = 0 THEN 0
                    ELSE IF profile.bloodPressureSystolic >= 180 THEN 25
                    ELSE IF profile.bloodPressureSystolic >= 140 THEN 15
                    ELSE IF profile.bloodPressureSystolic >= 130 THEN 10
                    ELSE 0
        total == IF profile.cholesterolTotal = 0 THEN 0
                 ELSE IF profile.cholesterolTotal >= 240 THEN 15
                 ELSE IF profile.cholesterolTotal >= 200 THEN 8
                 ELSE 0
        hdl == IF profile.cholesterolHdl = 0 THEN 0
               ELSE IF profile.cholesterolHdl < 40 THEN 10
               ELSE IF profile.cholesterolHdl >= 60 THEN 0 - 5
               ELSE 0
        sugar == IF profile.fastingBloodSugar = 0 THEN 0
                 ELSE IF profile.fastingBloodSugar >= 126 THEN 15
                 ELSE IF profile.fastingBloodSugar >= 100 THEN 8
                 ELSE 0
        diabetes == IF profile.diabetesStatus \in {"type1", "type2"} THEN 15
                    ELSE IF profile.diabetesStatus = "prediabetic" THEN 8
                    ELSE 0
        smoking == IF profile.smokingStatus = "current" THEN 20
                   ELSE IF profile.smokingStatus = "former" THEN 5
                   ELSE 0
        exercise == IF profile.exerciseFrequency = "sedentary" THEN 10
                    ELSE IF profile.exerciseFrequency \in {"active", "very_active"}
                    THEN 0 - 10
                    ELSE 0
        family == IF profile.familyHeartDisease THEN 15 ELSE 0
        conditions == (IF "hypertension" \in profile.healthConditions THEN 10 ELSE 0)
                        + (IF "arrhythmia" \in profile.healthConditions THEN 15 ELSE 0)
        score == age + bmi + pressure + total + hdl + sugar + diabetes + smoking
                    + exercise + family + conditions
    IN  Max2(0, Min2(score, 100))

\* fuseRisks(ecgRisk, clinicalRisk, isLiveMonitoring, ecgConfidence).fusedScore,
\* times 1000; ecgRisk is held times 100
fuseRisks(ecgRisk, clinicalRisk, isLiveMonitoring, ecgConfidence) ==
    LET alpha == IF ecgConfidence < 70 THEN 4
                 ELSE IF isLiveMonitoring THEN 7
                 ELSE 6
        beta == 10 - alpha
        fusedScore == alpha * ecgRisk + beta * 100 * clinicalRisk
        maxRisk == Max2(ecgRisk, 100 * clinicalRisk)
    IN  IF ecgRisk > 70 * 100 \/ clinicalRisk > 70
        THEN Max2(fusedScore, maxRisk * 8)
        ELSE fusedScore

\* the level the handler derives from the fused score (times 1000)
RiskLevel(fusedScore) ==
    IF fusedScore >= 60 * 1000 THEN "high"
    ELSE IF fusedScore >= 30 * 1000 THEN "moderate"
    ELSE "low"

\* the scores and the level of the response to a request, and what the
\* heart rate contributed to its ECG score and to its riskFactors
RiskResponse(req) ==
    LET ecgRiskScore == calculateECGRisk(req.ecgMetrics, req.ecgClassification)
        clinicalRiskScore == calculateClinicalRisk(req.clinicalProfile)
        fusedScore == fuseRisks(ecgRiskScore, clinicalRiskScore,
                                req.isLiveMonitoring, req.ecgClassification.confidence)
    IN  [finalRiskLevel |-> RiskLevel(fusedScore),
         ecgRiskScore |-> Round(ecgRiskScore, 100),
         clinicalRiskScore |-> clinicalRiskScore,
         fusedRiskScore |-> Round(fusedScore, 1000),
         heartRate |-> HeartRateAssessment(req.ecgMetrics.heartRate)]

\* ------------------------------------------------------------ the callers' inputs

\* how many calls (addData, reset) one behaviour makes
MaxCalls == 4

\* how many chunks one input array of detectPeaks is made of, at most
MaxBatchChunks == 2

\* the sample rates and buffer lengths (seconds) a detector is built with
SampleRates == {20}

\* the sample rates detectPeaks is called with directly
BatchSampleRates == {5, 20}

BufferSeconds == {5}

\* n samples at the baseline 0, with the values of f at its (0-based) positions
Wave(n, f) == Seq0([k \in 1..n |-> IF (k - 1) \in DOMAIN f THEN f[k - 1] ELSE 0])

\* a QRS complex in the middle of 25 samples: R wave of 1.0 mV
Beat == Wave(25, (11 :> -1) @@ (12 :> 10) @@ (13 :> -2))

\* 25 samples that end in the rising edge of an R wave (0.5 mV at the last
\* sample), after a Q dip
Rise == Wave(25, (17 :> -3) @@ (24 :> 5))

\* 25 samples that begin with the top of that R wave
Fall == Wave(25, (0 :> 10) @@ (1 :> -2))

\* 25 samples with two equal tops close to each other and a smaller bump
Twin == Wave(25, (1 :> 10) @@ (2 :> 6) @@ (3 :> 10) @@ (10 :> 5))

\* 25 samples of low-amplitude noise: no value above 0.4 mV
Noise == Seq0([k \in 1..25 |-> IF k % 7 = 3 THEN 4 ELSE IF k % 2 = 0 THEN 1 ELSE -1])

\* 104 samples, more than the detector's capacity, with four beats
Long == Wave(104, (3 :> 9) @@ (30 :> 10) @@ (55 :> 10) @@ (80 :> 8) @@ (81 :> -2))

\* the value sequences a caller appends in one addData call
Chunks == {Beat, Rise, Fall, Twin, Noise, Long}

\* 25 samples that begin with the top of an R wave, followed by an S dip:
\* the first sample of a recording is then its greatest
Top == Wave(25, (0 :> 10) @@ (4 :> -8))

\* one beat in 49, 51 and 52 samples: with a capacity of 100 samples, a
\* chunk of capacity - 49 samples, one sample less and one sample more
Beat49 == Wave(49, (20 :> 10) @@ (21 :> -2))

Beat51 == Wave(51, (20 :> 10) @@ (21 :> -2))

Beat52 == Wave(52, (20 :> 10) @@ (21 :> -2))

\* the value sequences of a caller whose recording may begin at the top of
\* an R wave and whose chunks are around capacity - 49
EdgeChunks == {Top, Beat49, Beat51, Beat52, Long}

\* 25 samples with two deep negative deflections and, after them, a wave
\* that reaches 0.5 mV
Deep == Wave(25, (13 :> -8) @@ (16 :> -6) @@ (18 :> 4) @@ (21 :> 5))

\* the value sequences the arrays handed to detectPeaks are made of
BatchChunks == Chunks \cup {Deep}

\* the samples of a chunk, spaced 1 / sampleRate from time `from` (ms) on
Stamp(chunk, from, rate) ==
    Seq0([k \in 1..Len(chunk) |->
            [time |-> from + (k - 1) * (1000 \div rate), value |-> chunk[k]]])

RECURSIVE ChunkRows(_)
\* up to n chunks in a row
ChunkRows(n) ==
    IF n = 0 THEN {<<>>}
    ELSE ChunkRows(n - 1) \cup {r \o c : r \in ChunkRows(n - 1), c \in BatchChunks}

\* the lengths at which a row of chunks is also cut, around the 50 samples
\* detectPeaks asks for
CutLengths == {10, 30, 49, 50, 56}

\* the value sequences handed to detectPeaks directly: the rows of up to
\* MaxBatchChunks chunks and their beginnings of the lengths above
BatchValues ==
    ChunkRows(MaxBatchChunks)
        \cup {SubSeq(c[1], 1, c[2]) :
                c \in {q \in ChunkRows(MaxBatchChunks) \X CutLengths : q[2] <= Len(q[1])}}

\* the requests sent to the risk-fusion function
HeartRates == {45, 72, 110, 130}

HrvSdnns == {30, 60}

QrsDurations == {80, 130}

QtIntervals == {360, 480}

RrIntervals == {833}

Labels == {"Normal Sinus Rhythm", "Atrial Fibrillation"}

Confidences == {-50, 60, 95}

Ages == {0, 70}

Systolics == {0, 185}

CholesterolTotals == {0, 210}

CholesterolHdls == {0, 65}

BloodSugars == {0, 110}

DiabetesStatuses == {"none", "prediabetic"}

SmokingStatuses == {"never", "current"}

ExerciseFrequencies == {"light", "sedentary", "active"}

Requests ==
    [ecgMetrics : [heartRate : HeartRates, hrvSdnn : HrvSdnns,
                   qrsDuration : QrsDurations, qtInterval : QtIntervals,
                   rrInterval : RrIntervals],
     ecgClassification : [label : Labels, confidence : Confidences],
     clinicalProfile : [age : Ages, bmi : {22}, bloodPressureSystolic : Systolics,
                        cholesterolTotal : CholesterolTotals,
                        cholesterolHdl : CholesterolHdls,
                        fastingBloodSugar : BloodSugars,
                        diabetesStatus : DiabetesStatuses,
                        smokingStatus : SmokingStatuses,
                        exerciseFrequency : ExerciseFrequencies,
                        familyHeartDisease : {FALSE},
                        healthConditions : {{}}],
     isLiveMonitoring : BOOLEAN]

\* ------------------------------------------------------------ state

VARIABLES
    sampleRate,          \* RealtimePeakDetector.sampleRate
    bufferSize,          \* RealtimePeakDetector.bufferSize
    buffer,              \* RealtimePeakDetector.buffer
    detectedPeaks,       \* RealtimePeakDetector.detectedPeaks
    lastProcessedIndex,  \* RealtimePeakDetector.lastProcessedIndex
    returned,            \* the result of the last addData call
    last,                \* what the last call was and did
    fresh,               \* a detector constructed when reset() was last called
    clock,               \* the time (ms) of the next sample of the stream
    calls,               \* the calls made so far
    stream,              \* the samples appended since construction or reset()
    earlier,             \* the peaks array of the result returned one addData
                         \* call earlier: as returned, and as it is now
    appended,            \* how many samples were appended since the last
                         \* detection run (or construction, or reset())
    data,                \* the array handed to a direct detectPeaks call
    batchResult,         \* what that call returned
    request,             \* the request sent to the risk-fusion function
    response             \* its response

vars == <<sampleRate, bufferSize, buffer, detectedPeaks, lastProcessedIndex,
          returned, last, fresh, clock, calls, stream, earlier, appended, data,
          batchResult, request, response>>

streamVars == <<sampleRate, bufferSize, buffer, detectedPeaks, lastProcessedIndex,
                returned, last, fresh, clock, calls, stream, earlier, appended>>

\* the peaks array of an earlier result that no call has touched since
Untouched(peaks) == [asReturned |-> peaks, now |-> peaks]

\* the detector as a record
Detector ==
    [sampleRate |-> sampleRate, bufferSize |-> bufferSize, buffer |-> buffer,
     detectedPeaks |-> detectedPeaks, lastProcessedIndex |-> lastProcessedIndex]

\* new RealtimePeakDetector(rate, seconds)
Constructed(rate, seconds) ==
    [sampleRate |-> rate, bufferSize |-> rate * seconds, buffer |-> <<>>,
     detectedPeaks |-> <<>>, lastProcessedIndex |-> 0]

\* no call has been made: nothing returned, nothing done
NoCall(op) ==
    [op |-> op, removeCount |-> 0, trimmedIndex |-> 0, indexBefore |-> 0,
     lengthBefore |-> 0, chunkLength |-> 0, detected |-> FALSE,
     pipelineLength |-> 0, batch |-> EmptyResult, divisors |-> {}]

\* no twin detector is running
NoTwin ==
    [active |-> FALSE, detector |-> Constructed(0, 0), returned |-> EmptyResult,
     before |-> [length |-> 0, peaks |-> 0, index |-> 0]]

\* a detector constructed with one of the given sample rates; no call yet
InitWith(rates) ==
    /\ \E rate \in rates, seconds \in BufferSeconds :
          /\ sampleRate = rate
          /\ bufferSize = Constructed(rate, seconds).bufferSize
          /\ buffer = Constructed(rate, seconds).buffer
          /\ detectedPeaks = Constructed(rate, seconds).detectedPeaks
          /\ lastProcessedIndex = Constructed(rate, seconds).lastProcessedIndex
    /\ returned = EmptyResult
    /\ last = NoCall("new")
    /\ fresh = NoTwin
    /\ clock = 0
    /\ calls = 0
    /\ stream = <<>>
    /\ earlier = Untouched(<<>>)
    /\ appended = 0

InitStream == InitWith(SampleRates)

\* no request has been sent, no response returned
NoRequest == [sent |-> FALSE]

NoResponse == [served |-> FALSE]

Init ==
    /\ InitStream
    /\ data = <<>>
    /\ batchResult = EmptyResult
    /\ request = NoRequest
    /\ response = NoResponse

\* detector.addData(newData) with the next samples of the stream; the twin
\* detector, when there is one, is handed the same samples
AddData(chunk) ==
    /\ calls < MaxCalls
    /\ \E newData \in {Stamp(chunk, clock, sampleRate)} :
       \E out \in {addData(Detector, newData)} :
       \E twin \in {IF fresh.active THEN addData(fresh.detector, newData) ELSE out} :
          /\ buffer' = out.buffer
          /\ detectedPeaks' = out.detectedPeaks
          /\ lastProcessedIndex' = out.lastProcessedIndex
          /\ returned' = out.result
          /\ last' = [op |-> "addData", removeCount |-> out.removeCount,
                      trimmedIndex |-> out.trimmedIndex,
                      indexBefore |-> lastProcessedIndex,
                      lengthBefore |-> Len(buffer),
                      chunkLength |-> Len(chunk),
                      detected |-> out.detected,
                      pipelineLength |-> out.pipelineLength,
                      batch |-> out.batch,
                      divisors |-> out.divisors]
          /\ fresh' = IF fresh.active
                      THEN [active |-> TRUE,
                            detector |-> [sampleRate |-> sampleRate,
                                          bufferSize |-> bufferSize,
                                          buffer |-> twin.buffer,
                                          detectedPeaks |-> twin.detectedPeaks,
                                          lastProcessedIndex |-> twin.lastProcessedIndex],
                            returned |-> twin.result,
                            before |-> fresh.before]
                      ELSE fresh
          /\ stream' = stream \o newData
          /\ earlier' = IF last.op = "addData"
                        THEN [asReturned |-> returned.peaks, now |-> out.oldArray]
                        ELSE Untouched(returned.peaks)
          /\ appended' = IF out.detected THEN 0 ELSE appended + Len(chunk)
    /\ clock' = clock + Len(chunk) * (1000 \div sampleRate)
    /\ calls' = calls + 1
    /\ UNCHANGED <<sampleRate, bufferSize, data, batchResult, request, response>>

\* mutant of reset: the watermark is not cleared
resetKeepsIndex(d) ==
    [sampleRate |-> d.sampleRate, bufferSize |-> d.bufferSize, buffer |-> <<>>,
     detectedPeaks |-> <<>>, lastProcessedIndex |-> d.lastProcessedIndex]

\* the fields of the detector after reset()
reset(d) ==
    [sampleRate |-> d.sampleRate, bufferSize |-> d.bufferSize, buffer |-> <<>>,
     detectedPeaks |-> <<>>, lastProcessedIndex |-> 0]

\* detector.reset(); from here on a freshly constructed detector with the
\* same sampleRate and bufferSeconds runs beside it
Reset ==
    /\ calls < MaxCalls
    /\ buffer' = reset(Detector).buffer
    /\ detectedPeaks' = reset(Detector).detectedPeaks
    /\ lastProcessedIndex' = reset(Detector).lastProcessedIndex
    /\ last' = [NoCall("reset") EXCEPT !.indexBefore = lastProcessedIndex,
                                      !.lengthBefore = Len(buffer)]
    /\ fresh' = [active |-> TRUE,
                 detector |-> Constructed(sampleRate, bufferSize \div sampleRate),
                 returned |-> EmptyResult,
                 before |-> [length |-> Len(buffer), peaks |-> Len(detectedPeaks),
                             index |-> lastProcessedIndex]]
    /\ stream' = <<>>
    /\ earlier' = Untouched(returned.peaks)
    /\ appended' = 0
    /\ calls' = calls + 1
    /\ UNCHANGED <<sampleRate, bufferSize, returned, clock, data, batchResult,
                   request, response>>

Next ==
    \/ \E chunk \in Chunks : AddData(chunk)
    \/ Reset

Spec == Init /\ [][Next]_vars

\* ------------------------------------------------------------ a second caller

NextEdge ==
    \/ \E chunk \in EdgeChunks : AddData(chunk)
    \/ Reset

SpecEdge == Init /\ [][NextEdge]_vars

\* ------------------------------------------------------------ detectPeaks alone

InitBatch ==
    /\ InitWith(BatchSampleRates)
    /\ \E values \in BatchValues : data = Stamp(values, 0, sampleRate)
    /\ batchResult = EmptyResult
    /\ request = NoRequest
    /\ response = NoResponse

\* detectPeaks(data, sampleRate), called directly
DetectPeaks ==
    /\ last.op = "new"
    /\ \E out \in {detectPeaks(data, sampleRate)} :
          /\ batchResult' = out
          /\ last' = [NoCall("detectPeaks") EXCEPT
                          !.divisors = detectPeaksDivisors(data, sampleRate, out)]
    /\ UNCHANGED <<sampleRate, bufferSize, buffer, detectedPeaks, lastProcessedIndex,
                   returned, fresh, clock, calls, stream, earlier, appended,
                   data, request, response>>

NextBatch == DetectPeaks

SpecBatch == InitBatch /\ [][NextBatch]_vars

\* ------------------------------------------------------------ the risk-fusion function alone

InitRisk ==
    /\ InitStream
    /\ data = <<>>
    /\ batchResult = EmptyResult
    /\ \E req \in Requests :
          request = [sent |-> TRUE, ecgMetrics |-> req.ecgMetrics,
                     ecgClassification |-> req.ecgClassification,
                     clinicalProfile |-> req.clinicalProfile,
                     isLiveMonitoring |-> req.isLiveMonitoring]
    /\ response = NoResponse

\* the handler answers the request
Serve ==
    /\ request.sent
    /\ ~response.served
    /\ \E out \in {RiskResponse(request)} :
          response' = [served |-> TRUE, finalRiskLevel |-> out.finalRiskLevel,
                       ecgRiskScore |-> out.ecgRiskScore,
                       clinicalRiskScore |-> out.clinicalRiskScore,
                       fusedRiskScore |-> out.fusedRiskScore,
                       heartRate |-> out.heartRate]
    /\ UNCHANGED <<streamVars, data, batchResult, request>>

NextRisk == Serve

SpecRisk == InitRisk /\ [][NextRisk]_vars

\* ------------------------------------------------------------ claims

\* the distance in time of two peaks, in milliseconds
TimeApart(p, q) == IF p.time >= q.time THEN p.time - q.time ELSE q.time - p.time

\* C1: the accumulated peak list never holds two peaks whose times are
\* less than refractoryPeriod / sampleRate seconds apart
C1_NoPeaksWithinRefractory ==
    \A i, j \in 1..Len(detectedPeaks) :
        i < j => TimeApart(detectedPeaks[i], detectedPeaks[j]) * sampleRate
                    >= RefractoryPeriod(sampleRate) * 1000

\* C2: the accumulated peak list is ordered by time
C2_PeaksTimeOrdered ==
    \A i \in 2..Len(detectedPeaks) :
        detectedPeaks[i].time >= detectedPeaks[i - 1].time

\* the last n entries of a sequence (all of it when it is shorter)
LastOf(s, n) == IF Len(s) <= n THEN s ELSE SubSeq(s, Len(s) - n + 1, Len(s))

\* C3: after every addData call, and when the pipeline is invoked, the
\* buffer holds at most sampleRate * bufferSeconds samples, and they are the
\* most recently appended ones in their order
C3_BufferBounded ==
    /\ Len(buffer) <= bufferSize
    /\ last.pipelineLength <= bufferSize
    /\ buffer = LastOf(stream, bufferSize)

\* C3 witness: a chunk larger than the capacity was appended, and the
\* pipeline ran on the full buffer
C3_Witness ==
    /\ last.op = "addData"
    /\ last.chunkLength > bufferSize
    /\ last.detected
    /\ Len(buffer) = bufferSize

\* C4: 0 <= lastProcessedIndex <= buffer.length always, and an addData call
\* that evicts k samples lowers the watermark by k, or to 0 when that
\* would be negative
C4_IndexInRange ==
    /\ 0 <= lastProcessedIndex
    /\ lastProcessedIndex <= Len(buffer)
    /\ last.op = "addData" =>
          LET k == last.lengthBefore + last.chunkLength - Len(buffer)
          IN  /\ 0 <= last.trimmedIndex
              /\ last.trimmedIndex <= Len(buffer)
              /\ last.trimmedIndex =
                    IF last.indexBefore - k < 0 THEN 0 ELSE last.indexBefore - k

\* C4 witness: an eviction lowered a watermark that stayed positive, in a
\* call that ran no detection
C4_Witness ==
    /\ last.op = "addData"
    /\ last.removeCount > 0
    /\ last.trimmedIndex > 0
    /\ ~last.detected
    /\ lastProcessedIndex = last.indexBefore - last.removeCount

\* C5: consecutive peaks of one detectPeaks result are at least 0.25 s apart
C5_BatchPeaksRefractory ==
    \A i \in 2..Len(batchResult.peaks) :
        batchResult.peaks[i].time - batchResult.peaks[i - 1].time >= 250

\* C6: every rrIntervals entry of every result of addData, and of the
\* detectPeaks call inside it, lies strictly between 0.3 s and 2.0 s
C6_RRInRange ==
    /\ \A k \in 1..Len(returned.rrIntervals) :
          returned.rrIntervals[k] > 300 /\ returned.rrIntervals[k] < 2000
    /\ \A k \in 1..Len(last.batch.rrIntervals) :
          last.batch.rrIntervals[k] > 300 /\ last.batch.rrIntervals[k] < 2000

\* C6 witness: a result with an RR interval although two of its consecutive
\* peaks are 2 s or more apart
C6_Witness ==
    /\ last.op = "addData"
    /\ Len(returned.rrIntervals) > 0
    /\ \E i \in 2..Len(returned.peaks) :
          returned.peaks[i].time - returned.peaks[i - 1].time >= 2000

\* C7: detectPeaks on fewer than 50 samples returns exactly
\* { peaks: [], rrIntervals: [], instantHR: 0, avgHR: 0 }
C7_ShortInputEmptyResult ==
    (last.op = "detectPeaks" /\ Len(data) < 50) =>
        /\ batchResult.peaks = <<>>
        /\ batchResult.rrIntervals = <<>>
        /\ batchResult.instantHR.num = 0
        /\ batchResult.avgHR.num = 0

\* C7 witness: detectPeaks was called on 49 samples that hold an R wave
C7_Witness ==
    /\ last.op = "detectPeaks"
    /\ Len(data) = 49
    /\ \E k \in 1..Len(data) : data[k].value = 10

\* C8: every peak of a detectPeaks result and every accumulated peak has a
\* value above 0.4, and a stream with no sample above 0.4 yields no peak
C8_PeaksAboveGate ==
    /\ \A k \in 1..Len(detectedPeaks) : detectedPeaks[k].value > 4
    /\ \A k \in 1..Len(returned.peaks) : returned.peaks[k].value > 4
    /\ \A k \in 1..Len(last.batch.peaks) : last.batch.peaks[k].value > 4
    /\ (\A k \in 1..Len(stream) : stream[k].value <= 4) => detectedPeaks = <<>>

\* C8 witness: the pipeline ran on a buffer with no sample above 0.4 mV,
\* some of them at 0.4 mV
C8_Witness ==
    /\ last.op = "addData"
    /\ last.detected
    /\ \A k \in 1..Len(buffer) : buffer[k].value <= 4
    /\ \E k \in 1..Len(buffer) : buffer[k].value = 4

\* C9: reset() leaves an empty buffer, an empty peak list and watermark 0,
\* and from then on the detector and a freshly constructed one, handed
\* the same addData calls, hold the same fields and return the same results
C9_ResetIsFresh ==
    /\ last.op = "reset" =>
          buffer = <<>> /\ detectedPeaks = <<>> /\ lastProcessedIndex = 0
    /\ fresh.active =>
          /\ fresh.detector = Detector
          /\ last.op = "addData" => fresh.returned = returned

\* C9 witness: a detector that had peaks and a watermark when it was reset
\* has detected peaks again since
C9_Witness ==
    /\ fresh.active
    /\ fresh.before.peaks > 0
    /\ fresh.before.index > 0
    /\ last.op = "addData"
    /\ last.detected
    /\ Len(returned.peaks) > 0

\* C11: no call evaluates a division by zero: every divisor of the
\* conditioning stages and of the metrics calculator is non-zero
C11_NoDivisionByZero == 0 \notin last.divisors

\* the heart rates of a result are those of its rrIntervals: both 0 when
\* there is none, else instantHR = 60 / last interval and
\* avgHR = 60 / mean interval (intervals in ms), both between 30 and 200
HeartRatesMatch(r) ==
    LET n == Len(r.rrIntervals)
    IN  IF n = 0 THEN r.instantHR.num = 0 /\ r.avgHR.num = 0
        ELSE /\ r.instantHR.num * r.rrIntervals[n] = 60000 * r.instantHR.den
             /\ r.avgHR.num * SumRange(r.rrIntervals, 1, n) = 60000 * n * r.avgHR.den
             /\ 30 * r.instantHR.den < r.instantHR.num
             /\ r.instantHR.num < 200 * r.instantHR.den
             /\ 30 * r.avgHR.den < r.avgHR.num
             /\ r.avgHR.num < 200 * r.avgHR.den

\* C12: in every result of addData and of detectPeaks, instantHR and avgHR
\* are 0 exactly when rrIntervals is empty, and else 60 / last interval and
\* 60 / mean interval, strictly between 30 and 200 BPM
C12_HeartRates ==
    /\ HeartRatesMatch(returned)
    /\ HeartRatesMatch(last.batch)
    /\ HeartRatesMatch(batchResult)

\* C12 witness: addData returned two or more intervals, not all equal
C12_Witness ==
    /\ last.op = "addData"
    /\ Len(returned.rrIntervals) >= 2
    /\ returned.rrIntervals[1] # returned.rrIntervals[Len(returned.rrIntervals)]

\* the accumulated peaks that survive a call's trim: all of them when
\* nothing was evicted, else those not earlier than the first sample of
\* the buffer after the call
Survivors(peaks, evicted, bufferAfter) ==
    IF evicted = 0 THEN peaks
    ELSE SelectSeq(peaks, LAMBDA p :
            p.time >= (IF Len(bufferAfter) > 0 THEN bufferAfter[1].time ELSE 0))

\* C13: an addData call that leaves fewer than 50 unprocessed samples runs
\* no detection: the accumulated list afterwards is the list before minus
\* the peaks the trim dropped, and the returned rrIntervals, instantHR and
\* avgHR are those of the accumulated peaks alone
C13_NoDetectionFrame ==
    [][(last'.op = "addData" /\ Len(buffer') - last'.trimmedIndex < 50) =>
          /\ ~last'.detected
          /\ detectedPeaks' = Survivors(detectedPeaks, last'.removeCount, buffer')
          /\ lastProcessedIndex' = last'.trimmedIndex
          /\ returned'.peaks = detectedPeaks'
          /\ returned'.rrIntervals = calculateMetrics(detectedPeaks').rrIntervals
          /\ returned'.instantHR = calculateMetrics(detectedPeaks').instantHR
          /\ returned'.avgHR = calculateMetrics(detectedPeaks').avgHR]_vars

\* C13 witness: a call that evicted samples and ran no detection returned
\* intervals of the accumulated peaks
C13_Witness ==
    /\ last.op = "addData"
    /\ ~last.detected
    /\ last.removeCount > 0
    /\ Len(detectedPeaks) >= 2
    /\ Len(returned.rrIntervals) > 0

\* the peaks of a batch result later than a given time, in batch order
LaterThan(peaks, time) == SelectSeq(peaks, LAMBDA p : p.time > time)

\* C14: in an addData call that runs detection and whose trim keeps some
\* accumulated peak, the list afterwards is the kept peaks, unchanged,
\* followed by exactly the peaks of the batch result over the current
\* buffer later than the last kept peak, in batch order (a run that starts
\* from an empty list has no last peak: that case is C30's)
C14_MergeAfterLastKept ==
    [][(last'.op = "addData" /\ last'.detected
            /\ Len(Survivors(detectedPeaks, last'.removeCount, buffer')) > 0) =>
          LET kept == Survivors(detectedPeaks, last'.removeCount, buffer')
          IN  /\ last'.batch = detectPeaks(buffer', sampleRate)
              /\ detectedPeaks' =
                    kept \o LaterThan(last'.batch.peaks, kept[Len(kept)].time)]_vars

\* C14 witness: a detection run that evicted samples appended some peaks of
\* the batch result to kept ones and left others out
C14_Witness ==
    /\ last.op = "addData"
    /\ last.detected
    /\ last.removeCount > 0
    /\ Len(detectedPeaks) > Len(returned.rrIntervals) + 1
    /\ \E k \in 1..Len(last.batch.peaks) :
          last.batch.peaks[k] = detectedPeaks[Len(detectedPeaks)]
    /\ \E k \in 1..Len(last.batch.peaks), j \in 1..(Len(detectedPeaks) - 1) :
          last.batch.peaks[k].time <= detectedPeaks[j].time

\* C15: after an addData call that evicted samples, no accumulated peak is
\* earlier than the earliest sample still buffered, and the peaks held
\* before the call that are not earlier than it are all still there, in
\* their order, at the head of the list
C15_TrimDropsOldPeaks ==
    [][(last'.op = "addData" /\ last'.removeCount > 0 /\ Len(buffer') > 0) =>
          LET kept == SelectSeq(detectedPeaks,
                                LAMBDA p : p.time >= buffer'[1].time)
          IN  /\ \A k \in 1..Len(detectedPeaks') :
                    detectedPeaks'[k].time >= buffer'[1].time
              /\ Len(detectedPeaks') >= Len(kept)
              /\ SubSeq(detectedPeaks', 1, Len(kept)) = kept]_vars

\* C15 witness: a call evicted samples and peaks are held whose first one
\* lies within a second of the earliest buffered sample
C15_Witness ==
    /\ last.op = "addData"
    /\ last.removeCount > 0
    /\ Len(detectedPeaks) >= 2
    /\ detectedPeaks[1].time < buffer[1].time + 1000

\* C16: the peaks of a result returned by an addData call have the same
\* contents after the next addData or reset call as when they were returned
C16_ResultNeverChanges == earlier.now = earlier.asReturned

\* the three scores of a response lie within [0, 100]
ScoresInRange(r) ==
    /\ 0 <= r.ecgRiskScore /\ r.ecgRiskScore <= 100
    /\ 0 <= r.clinicalRiskScore /\ r.clinicalRiskScore <= 100
    /\ 0 <= r.fusedRiskScore /\ r.fusedRiskScore <= 100

\* the level of a response is the band of its fused score
LevelMatchesScore(r) ==
    r.finalRiskLevel = IF r.fusedRiskScore >= 60 THEN "high"
                       ELSE IF r.fusedRiskScore >= 30 THEN "moderate"
                       ELSE "low"

\* C19: every response has its three scores within [0, 100], and its
\* finalRiskLevel is "high" iff its fused score is at least 60, "moderate"
\* iff it is in [30, 60), and "low" otherwise
C19_RiskScoresAndLevel ==
    response.served => ScoresInRange(response) /\ LevelMatchesScore(response)

\* C20: in the scan of a detectPeaks call, every envelope index i that
\* produced a peak has 2 <= i <= N - 3, an envelope value strictly greater
\* than those at i - 2, i - 1, i + 1 and i + 2 and greater than the
\* threshold in force, and lies at least floor(0.25 * sampleRate) after the
\* index accepted before it; so the accepted indices strictly increase
C20_ScanAcceptsCandidates ==
    (last.op = "detectPeaks" /\ Len(data) >= 50) =>
        \A values \in {Seq0([k \in 1..Len(data) |-> data[k].value])} :
        \A times \in {Seq0([k \in 1..Len(data) |-> data[k].time])} :
        \A env \in {Envelope(values, sampleRate)} :
        \A st \in {findPeaksState(env, values, times, sampleRate)} :
            /\ st.peaks = batchResult.peaks
            /\ Len(st.accepted) = Len(st.peaks)
            /\ \A k \in 1..Len(st.accepted) :
                  /\ 2 <= st.accepted[k]
                  /\ st.accepted[k] <= Len(env) - 3
                  /\ env[st.accepted[k] + 1] > env[st.accepted[k] - 1]
                  /\ env[st.accepted[k] + 1] > env[st.accepted[k]]
                  /\ env[st.accepted[k] + 1] > env[st.accepted[k] + 2]
                  /\ env[st.accepted[k] + 1] > env[st.accepted[k] + 3]
                  /\ 100 * env[st.accepted[k] + 1] > st.thresholds[k]
                  /\ k > 1 =>
                        /\ st.accepted[k] > st.accepted[k - 1]
                        /\ st.accepted[k] - st.accepted[k - 1] >= sampleRate \div 4

\* C20 witness: a detectPeaks call at 20 Hz returned three or more peaks
C20_Witness ==
    /\ last.op = "detectPeaks"
    /\ sampleRate = 20
    /\ Len(batchResult.peaks) >= 3

\* C21: throughout the scan of a detectPeaks call the adaptive threshold is
\* never below minThreshold = 0.1 * maxVal: neither the threshold the scan
\* starts with, nor any threshold a peak was tested against, nor the one
\* the scan ends with
C21_ThresholdAboveFloor ==
    (last.op = "detectPeaks" /\ Len(data) >= 50) =>
        \A values \in {Seq0([k \in 1..Len(data) |-> data[k].value])} :
        \A times \in {Seq0([k \in 1..Len(data) |-> data[k].time])} :
        \A env \in {Envelope(values, sampleRate)} :
        \A st \in {findPeaksState(env, values, times, sampleRate)} :
            /\ st.peaks = batchResult.peaks
            /\ st.minThreshold = 10 * OrZero(sortedSignalAt(env, 0))
            /\ st.threshold >= st.minThreshold
            /\ \A k \in 1..Len(st.thresholds) : st.thresholds[k] >= st.minThreshold

\* C21 witness: a scan over an envelope with a positive maximum emitted
\* two or more peaks and adapted its threshold after each
C21_Witness ==
    /\ last.op = "detectPeaks"
    /\ Len(data) >= 50
    /\ Len(batchResult.peaks) >= 2
    /\ \E values \in {Seq0([k \in 1..Len(data) |-> data[k].value])} :
       \E times \in {Seq0([k \in 1..Len(data) |-> data[k].time])} :
       \E st \in {findPeaksState(Envelope(values, sampleRate), values, times,
                                  sampleRate)} :
          /\ st.minThreshold > 0
          /\ st.thresholds[2] # st.thresholds[1]
          /\ st.threshold # st.thresholds[2]

\* C22: in the scan of a detectPeaks call, an index that passes the
\* local-maximum, threshold and refractory tests but whose sample found in
\* the original signal is not above 0.4 leaves lastPeakIndex, the threshold
\* and the peak list as they were; only an index that emits a peak changes
\* them
C22_GatedCandidateChangesNothing ==
    (last.op = "detectPeaks" /\ Len(data) >= 50) =>
        \A values \in {Seq0([k \in 1..Len(data) |-> data[k].value])} :
        \A times \in {Seq0([k \in 1..Len(data) |-> data[k].time])} :
        \A env \in {Envelope(values, sampleRate)} :
        \A st \in {findPeaksState(env, values, times, sampleRate)} :
            /\ st.peaks = batchResult.peaks
            /\ \A k \in 1..Len(st.visited) :
                  /\ st.visited[k].emitted =
                        (SearchMax(values, st.visited[k].index).peakVal > 4)
                  /\ ~st.visited[k].emitted =>
                        st.visited[k].after = st.visited[k].before
                  /\ st.visited[k].emitted =>
                        /\ st.visited[k].after.lastPeakIndex = st.visited[k].index
                        /\ Len(st.visited[k].after.peaks)
                              = Len(st.visited[k].before.peaks) + 1
                  /\ k > 1 => st.visited[k].before = st.visited[k - 1].after

\* C22 witness: a scan discarded a candidate at the amplitude gate and
\* emitted a peak at an index less than a refractory period after it
C22_Witness ==
    /\ last.op = "detectPeaks"
    /\ Len(data) >= 50
    /\ \E values \in {Seq0([k \in 1..Len(data) |-> data[k].value])} :
       \E times \in {Seq0([k \in 1..Len(data) |-> data[k].time])} :
       \E st \in {findPeaksState(Envelope(values, sampleRate), values, times,
                                  sampleRate)} :
       \E k \in 1..(Len(st.visited) - 1) :
          /\ ~st.visited[k].emitted
          /\ st.visited[k + 1].emitted
          /\ st.visited[k + 1].index - st.visited[k].index < sampleRate \div 4
          /\ st.visited[k + 1].index - st.visited[k].before.lastPeakIndex
                >= sampleRate \div 4

\* C23: every peak of a detectPeaks result, emitted at envelope index i,
\* carries the maximum of the original signal over the indices
\* max(0, i - 8) .. min(N - 1, i + 8): its value is that maximum, its index
\* lies in the window, the original signal has its value at its index and
\* its time is the time of the sample at its index
C23_PeakIsWindowMaximum ==
    (last.op = "detectPeaks" /\ Len(data) >= 50) =>
        \A values \in {Seq0([k \in 1..Len(data) |-> data[k].value])} :
        \A times \in {Seq0([k \in 1..Len(data) |-> data[k].time])} :
        \A st \in {findPeaksState(Envelope(values, sampleRate), values, times,
                                  sampleRate)} :
            /\ st.peaks = batchResult.peaks
            /\ Len(st.accepted) = Len(batchResult.peaks)
            /\ \A k \in 1..Len(batchResult.peaks) :
                  \A lo \in {Max2(0, st.accepted[k] - 8)} :
                  \A hi \in {Min2(Len(data) - 1, st.accepted[k] + 8)} :
                      /\ lo <= batchResult.peaks[k].index
                      /\ batchResult.peaks[k].index <= hi
                      /\ \A j \in lo..hi :
                            data[j + 1].value <= batchResult.peaks[k].value
                      /\ data[batchResult.peaks[k].index + 1].value
                            = batchResult.peaks[k].value
                      /\ data[batchResult.peaks[k].index + 1].time
                            = batchResult.peaks[k].time

\* C23 witness: a result with a peak found away from the envelope index
\* that emitted it and a peak whose window is clamped at the start of the
\* array
C23_Witness ==
    /\ last.op = "detectPeaks"
    /\ Len(data) >= 50
    /\ \E values \in {Seq0([k \in 1..Len(data) |-> data[k].value])} :
       \E times \in {Seq0([k \in 1..Len(data) |-> data[k].time])} :
       \E st \in {findPeaksState(Envelope(values, sampleRate), values, times,
                                  sampleRate)} :
          /\ \E k \in 1..Len(st.peaks) : st.peaks[k].index # st.accepted[k]
          /\ \E k \in 1..Len(st.peaks) : st.accepted[k] < 8

RECURSIVE InRangeDifferences(_, _)
\* the differences time[i] - time[i - 1] of the peaks from the i-th on
\* (1-based, i >= 2) that lie strictly between 0.3 s and 2.0 s, in peak order
InRangeDifferences(peaks, i) ==
    IF i > Len(peaks) THEN <<>>
    ELSE (IF peaks[i].time - peaks[i - 1].time > 300
                /\ peaks[i].time - peaks[i - 1].time < 2000
          THEN <<peaks[i].time - peaks[i - 1].time>> ELSE <<>>)
            \o InRangeDifferences(peaks, i + 1)

\* the rrIntervals of a result are the in-range differences of the given
\* peaks, no more of them than there are consecutive pairs
IntervalsOf(rrIntervals, peaks) ==
    /\ rrIntervals = InRangeDifferences(peaks, 2)
    /\ Len(rrIntervals) <= Max2(0, Len(peaks) - 1)

\* C24: the rrIntervals calculateMetrics returns are exactly the
\* consecutive peak-time differences strictly inside (0.3, 2.0), in peak
\* order, so at most max(0, peaks.length - 1) of them; the peaks of an
\* out-of-range difference stay in the peak list.  calculateMetrics is
\* called on the peaks of a detectPeaks result and, in an addData call that
\* runs no detection, on the accumulated peaks
C24_IntervalsAreInRangeDifferences ==
    /\ IntervalsOf(batchResult.rrIntervals, batchResult.peaks)
    /\ IntervalsOf(last.batch.rrIntervals, last.batch.peaks)
    /\ (last.op = "addData" /\ ~last.detected) =>
          IntervalsOf(returned.rrIntervals, returned.peaks)

\* C24 witness: a detectPeaks result inside addData whose first difference
\* is out of range and left out, with both its peaks in the list, and with
\* a later difference that is in range
C24_Witness ==
    /\ last.op = "addData"
    /\ last.detected
    /\ Len(last.batch.peaks) >= 3
    /\ last.batch.peaks[2].time - last.batch.peaks[1].time >= 2000
    /\ Len(last.batch.rrIntervals) > 0
    /\ Len(last.batch.rrIntervals) < Len(last.batch.peaks) - 1

\* C25: for a detector whose capacity is at least 50, an addData call
\* runs the pipeline if and only if at least 50 samples have been appended
\* since the previous detection run (or construction, or reset), the
\* samples of the call included, whatever was evicted in between; after
\* the run the watermark equals the buffer length
C25_DetectionEveryFiftySamples ==
    [][(last'.op = "addData" /\ bufferSize >= 50) =>
          /\ last'.detected <=> (appended + last'.chunkLength >= 50)
          /\ last'.detected => lastProcessedIndex' = Len(buffer')]_vars

\* C25 witness: a call that appended fewer than 50 samples and evicted
\* some, lowering a watermark that stayed positive, ran the pipeline
C25_Witness ==
    /\ last.op = "addData"
    /\ bufferSize >= 50
    /\ last.chunkLength < 50
    /\ last.removeCount > 0
    /\ last.trimmedIndex > 0
    /\ last.detected
    /\ lastProcessedIndex = Len(buffer)

\* C26: calculateECGRisk scores the heart-rate bands as labelled: a heart
\* rate above 120 BPM adds 35 points with the factor 'Significant
\* tachycardia (HR > 120 BPM)', one in (100, 120] adds 20 points with
\* 'Tachycardia detected (HR > 100 BPM)', and one below 50 adds 25 points
C26_HeartRateBands ==
    response.served =>
        /\ request.ecgMetrics.heartRate > 120 =>
              response.heartRate =
                  [points |-> 35, factor |-> "Significant tachycardia (HR > 120 BPM)"]
        /\ (request.ecgMetrics.heartRate > 100
                /\ request.ecgMetrics.heartRate <= 120) =>
              response.heartRate =
                  [points |-> 20, factor |-> "Tachycardia detected (HR > 100 BPM)"]
        /\ request.ecgMetrics.heartRate < 50 => response.heartRate.points = 25

\* C27: in every result of addData, rrIntervals, instantHR and avgHR are
\* what calculateMetrics yields for the peaks of that same result, whether
\* the call ran detection or not
C27_MetricsDescribeReturnedPeaks ==
    last.op = "addData" =>
        \A m \in {calculateMetrics(returned.peaks)} :
            /\ returned.rrIntervals = m.rrIntervals
            /\ returned.instantHR = m.instantHR
            /\ returned.avgHR = m.avgHR

\* C28: the index of every accumulated peak is an offset into the
\* detector's current buffer, and the sample at that offset has the peak's
\* time and value
C28_PeakIndexIntoBuffer ==
    \A k \in 1..Len(detectedPeaks) :
        /\ 0 <= detectedPeaks[k].index
        /\ detectedPeaks[k].index < Len(buffer)
        /\ buffer[detectedPeaks[k].index + 1].time = detectedPeaks[k].time
        /\ buffer[detectedPeaks[k].index + 1].value = detectedPeaks[k].value

\* the samples a call evicted: those of the buffer before the call and of
\* the chunk it appended that are not in the buffer after it
Evicted(bufferBefore, newData, bufferAfter) ==
    {x \in {bufferBefore[j] : j \in 1..Len(bufferBefore)}
            \cup {newData[j] : j \in 1..Len(newData)} :
        \A j \in 1..Len(bufferAfter) : bufferAfter[j] # x}

\* the samples that have been in the buffer during a detection run: a run
\* works on the whole buffer, so they are the buffered samples appended up
\* to the last run
Processed(bufferNow, streamNow, appendedNow) ==
    {x \in {bufferNow[j] : j \in 1..Len(bufferNow)} :
        \E j \in 1..(Len(streamNow) - appendedNow) : streamNow[j] = x}

\* C29: an addData call whose chunk holds at most capacity - 49 samples
\* (capacity = sampleRate * bufferSeconds >= 50) evicts only samples that
\* were in the buffer during an earlier detection run; a call whose chunk
\* is larger than the capacity evicts samples that never were
C29_EvictsOnlyProcessedSamples ==
    [][(last'.op = "addData" /\ bufferSize >= 50) =>
          \A newData \in {SubSeq(stream', Len(stream) + 1, Len(stream'))} :
          \A evicted \in {Evicted(buffer, newData, buffer')} :
              /\ last'.chunkLength <= bufferSize - 49 =>
                    evicted \subseteq Processed(buffer, stream, appended)
              /\ last'.chunkLength > bufferSize =>
                    ~(evicted \subseteq Processed(buffer, stream, appended))]_vars

\* C29 witness: a call with a chunk of capacity - 49 samples, made on a
\* full buffer whose last 49 samples were unprocessed, evicted every
\* processed sample and no other
C29_Witness ==
    /\ last.op = "addData"
    /\ bufferSize >= 50
    /\ last.chunkLength = bufferSize - 49
    /\ last.lengthBefore = bufferSize
    /\ last.indexBefore = last.lengthBefore - 49
    /\ last.removeCount = last.indexBefore

\* C30: in an addData call that runs detection while the accumulated list
\* is empty (no peak yet, or none kept by the trim), every peak of the
\* batch result is appended, whatever its time: the list afterwards is the
\* peaks of the batch result
C30_EmptyListTakesEveryPeak ==
    [][(last'.op = "addData" /\ last'.detected
            /\ Survivors(detectedPeaks, last'.removeCount, buffer') = <<>>) =>
          detectedPeaks' = last'.batch.peaks]_vars

====
